---- MODULE Spec2Model ----
(***************************************************************************)
(* Heading-based section segmentation of the JIBC Workshops Navigator      *)
(* (extract_sections_from_docx, src/hoba_app_updated_v9.py).               *)
(*                                                                         *)
(* Strings are modelled as sequences of atoms.  An atom is a maximal piece *)
(* of text the code never looks inside: a run of letters with its spelling *)
(* (case-folded) and its casing, a digit, a blank, a punctuation mark or a *)
(* literal message.  Atoms written next to each other with no blank atom   *)
(* in between form one longer word, so <<L("x"), L("design")>> is the      *)
(* text "xdesign".  The filler spellings ("x", "y", "s") never             *)
(* combine into a keyword, so a keyword occurs in a text exactly where one *)
(* of its atoms occurs.                                                    *)
(***************************************************************************)
EXTENDS Integers, Sequences, FiniteSets, TLC

\* ------------------------------------------------------------------ bounds
MaxParas == 3
MaxRerunParas == 2
MaxRuns == 2
MaxKeywordParas == 1
MaxInterleavedParas == 2
MaxRevisionParas == 2

\* ------------------------------------------------------------------- atoms
L(w) == [k |-> "word", s |-> w, c |-> "lower"]
U(w) == [k |-> "word", s |-> w, c |-> "upper"]
T(w) == [k |-> "word", s |-> w, c |-> "mixed"]
D(d) == [k |-> "digit", s |-> d, c |-> "none"]
Pn(p) == [k |-> "punct", s |-> p, c |-> "none"]
Lit(m) == [k |-> "literal", s |-> m, c |-> "none"]
Sp == [k |-> "space", s |-> " ", c |-> "none"]

None == "None"

\* str.upper(): letters become upper-case, everything else is kept.
Upper(t) == [i \in 1..Len(t) |-> IF t[i].k = "word" THEN [t[i] EXCEPT !.c = "upper"] ELSE t[i]]

\* \w of the regular expressions: letters, digits (and the underscore).
IsWordAtom(a) == a.k \in {"word", "digit"}

\* str.isspace() of one atom.
IsSpaceAtom(a) == a.k = "space"

\* ------------------------------------------------------ program constants
SECTIONS == <<"DISCOVERY", "DESIGN", "REQUIREMENTS", "INTEGRATION", "ROADMAP", "FINALIZATION">>

SectionSet == {SECTIONS[i] : i \in 1..Len(SECTIONS)}

\* The word-count threshold of the pseudo-heading test.
PseudoHeadingMaxWords == 6

HeadingMarker == <<Pn("###"), Sp>>

JoinSeparator == <<Lit("\n\n")>>

\* The em dash of the source messages is written "--".
NoContentMessage == <<Lit("*(No section content found -- check headings/keywords in the DOCX)*")>>

NotAvailableMessage == <<Lit("*(python-docx not available -- install with pip install python-docx)*")>>

\* A path argument is None, the empty string or a path; bool(docx_path).
PathNone == <<Lit("None")>>

Truthy(docx_path) == docx_path # PathNone /\ docx_path # <<>>

\* Variant: the not-found return reuses the empty-bucket placeholder.
NotFoundMessageAsPlaceholder(docx_path) == NoContentMessage

NotFoundMessage(docx_path) == <<Lit("*(DOCX not found at ")>> \o (IF Truthy(docx_path) THEN docx_path ELSE <<Lit("[uploaded bytes missing]")>>) \o <<Lit(")*")>>

OpenFailedMessage(e) == <<Lit("*(Failed to open DOCX: ")>> \o e \o <<Lit(")*")>>

\* ---------------------------------------------------------- string helpers
RECURSIVE LStrip(_)
LStrip(t) == IF t # <<>> /\ IsSpaceAtom(Head(t)) THEN LStrip(Tail(t)) ELSE t

RECURSIVE RStrip(_)
RStrip(t) == IF t # <<>> /\ IsSpaceAtom(t[Len(t)]) THEN RStrip(SubSeq(t, 1, Len(t) - 1)) ELSE t

\* str.strip()
Strip(t) == RStrip(LStrip(t))

\* str.isupper(): at least one cased character and no lower-case one.
IsUpper(t) ==
    /\ \E i \in 1..Len(t) : t[i].c = "upper"
    /\ \A i \in 1..Len(t) : t[i].c \notin {"lower", "mixed"}

\* len(str.split()): the number of maximal runs of non-blank characters.
WordCount(t) == Cardinality({i \in 1..Len(t) : ~IsSpaceAtom(t[i]) /\ (i = 1 \/ IsSpaceAtom(t[i - 1]))})

\* \b before / after position i of t.
BoundaryBefore(t, i) == i = 1 \/ ~IsWordAtom(t[i - 1])

BoundaryAfter(t, i) == i = Len(t) \/ ~IsWordAtom(t[i + 1])

\* Atom i of t spells w, letter case ignored (re.I).
Spells(t, i, w) == i \in 1..Len(t) /\ t[i].k = "word" /\ t[i].s = w

\* \bw\b
WholeWord(t, w) == \E i \in 1..Len(t) : Spells(t, i, w) /\ BoundaryBefore(t, i) /\ BoundaryAfter(t, i)

\* \bw(s)?\b
WholeWordOptS(t, w) ==
    \E i \in 1..Len(t) :
        /\ Spells(t, i, w)
        /\ BoundaryBefore(t, i)
        /\ \/ BoundaryAfter(t, i)
           \/ Spells(t, i + 1, "s") /\ BoundaryAfter(t, i + 1)

\* \bfinali[sz]ation|final readout|approval\b : three alternatives, the
\* first anchored on the left only, the second not anchored, the third
\* anchored on the right only.
FinalizationPattern(t) ==
    \/ \E i \in 1..Len(t) : (Spells(t, i, "finalization") \/ Spells(t, i, "finalisation")) /\ BoundaryBefore(t, i)
    \/ \E i \in 1..Len(t) : Spells(t, i, "final") /\ i + 2 <= Len(t) /\ t[i + 1] = Sp /\ Spells(t, i + 2, "readout")
    \/ \E i \in 1..Len(t) : Spells(t, i, "approval") /\ BoundaryAfter(t, i)

\* PHASE_PATTERNS[sec].search(t)
PatternSearch(sec, t) ==
    CASE sec = "DISCOVERY" -> WholeWord(t, "discovery")
      [] sec = "DESIGN" -> WholeWord(t, "design")
      [] sec = "REQUIREMENTS" -> WholeWordOptS(t, "requirement")
      [] sec = "INTEGRATION" -> WholeWordOptS(t, "integration")
      [] sec = "ROADMAP" -> WholeWord(t, "roadmap")
      [] sec = "FINALIZATION" -> FinalizationPattern(t)

\* The keys of PHASE_PATTERNS in the order PHASE_PATTERNS.items() yields them.
PHASE_PATTERNS == <<"DISCOVERY", "DESIGN", "REQUIREMENTS", "INTEGRATION", "ROADMAP", "FINALIZATION">>

\* Variant: the loop keeps going after a match, so the last match stands.
LastInOrder(hits) ==
    IF \E i \in 1..Len(PHASE_PATTERNS) : hits[i]
    THEN PHASE_PATTERNS[CHOOSE i \in 1..Len(PHASE_PATTERNS) :
                            /\ hits[i]
                            /\ \A j \in (i + 1)..Len(PHASE_PATTERNS) : ~hits[j]]
    ELSE None

\* The phase at which a "for sec, pattern in PHASE_PATTERNS.items()" loop
\* breaks, or None when it runs to the end; hits[i] is the loop's test for
\* the i-th item.
FirstInOrder(hits) ==
    IF \E i \in 1..Len(PHASE_PATTERNS) : hits[i]
    THEN PHASE_PATTERNS[CHOOSE i \in 1..Len(PHASE_PATTERNS) :
                            /\ hits[i]
                            /\ \A j \in 1..(i - 1) : ~hits[j]]
    ELSE None

\* Variant: "HEADING" in style_name, without the upper().
IsHeadingStyleCaseSensitive(style_name) == \E i \in 1..Len(style_name) : style_name[i] = U("heading")

\* "HEADING" in style_name.upper()
IsHeadingStyle(style_name) == \E i \in 1..Len(style_name) : Upper(style_name)[i] = U("heading")

\* The loop of the heading path: the first phase whose pattern matches.
HeadingMatch(text) == FirstInOrder([i \in 1..Len(PHASE_PATTERNS) |-> PatternSearch(PHASE_PATTERNS[i], text)])

\* Variant: the word-count test is "<" instead of "<=".
PseudoHeadingConditionStrict(text) == IsUpper(text) \/ WordCount(text) < PseudoHeadingMaxWords

\* text.isupper() or len(text.split()) <= 6
PseudoHeadingCondition(text) == IsUpper(text) \/ WordCount(text) <= PseudoHeadingMaxWords

\* The loop of the pseudo-heading path.
PseudoHeadingMatch(text) == FirstInOrder([i \in 1..Len(PHASE_PATTERNS) |-> PatternSearch(PHASE_PATTERNS[i], text) /\ PseudoHeadingCondition(text)])

\* Variant: the heading goes into the bucket as plain text.
HeadingFragmentNoMarker(text) == text

\* f"### {text}"
HeadingFragment(text) == HeadingMarker \o text

\* Variant: out[sec].insert(0, fragment)
AppendToFront(buckets, sec, fragment) == [buckets EXCEPT ![sec] = <<fragment>> \o @]

\* out[sec].append(fragment)
AppendTo(buckets, sec, fragment) == [buckets EXCEPT ![sec] = Append(@, fragment)]

\* A local name that is not bound, and the result before any call returned.
Unbound == [s \in {} |-> <<>>]

NoResult == [s \in {} |-> <<>>]

\* Variant: the buckets are created once and shared by all calls.
KeepBuckets(old) == IF DOMAIN old = SectionSet THEN old ELSE [s \in SectionSet |-> <<>>]

\* out = {s: [] for s in SECTIONS}; the argument is what the name was bound
\* to before.
NewBuckets(old) == [s \in SectionSet |-> <<>>]

\* Variant: the cursor of the previous call is kept.
KeepCursor(old) == old

\* current_section: Optional[str] = None
NewCursor(old) == None

\* "\n\n".join(v)
RECURSIVE Join(_)
Join(v) == IF v = <<>> THEN <<>> ELSE IF Len(v) = 1 THEN v[1] ELSE v[1] \o JoinSeparator \o Join(Tail(v))

\* Variant: no substitution for an empty bucket.
AssembleOneNoPlaceholder(v) == Join(v)

\* ("\n\n".join(v) if v else "*(No section content found ...)*")
AssembleOne(v) == IF v # <<>> THEN Join(v) ELSE NoContentMessage

\* Variant: the comprehension filters out the empty buckets.
AssembleNonEmptyOnly(buckets) == [k \in {b \in DOMAIN buckets : buckets[b] # <<>>} |-> AssembleOne(buckets[k])]

\* The returned dict comprehension over out.items().
Assemble(buckets) == [k \in DOMAIN buckets |-> AssembleOne(buckets[k])]

\* Variant: a blank paragraph ends the current section.
BlankStepResetsCursor(cur, buckets) == [cur |-> None, out |-> buckets]

\* "if not text: continue"
BlankStep(cur, buckets) == [cur |-> cur, out |-> buckets]

\* Variant: a switch starts the bucket afresh, out[sec] = [f"### {text}"].
SwitchStepResetsBucket(buckets, sec, text) == [cur |-> sec, out |-> [buckets EXCEPT ![sec] = <<HeadingFragment(text)>>]]

\* current_section = sec; out[sec].append(f"### {text}")
SwitchStep(buckets, sec, text) == [cur |-> sec, out |-> AppendTo(buckets, sec, HeadingFragment(text))]

\* Variant: text before the first heading goes to the first phase.
BodyStepDefaultBucket(cur, buckets, text) ==
    IF cur # None THEN [cur |-> cur, out |-> AppendTo(buckets, cur, text)]
    ELSE [cur |-> cur, out |-> AppendTo(buckets, SECTIONS[1], text)]

\* Variant: a line the bucket already holds is not appended again.
BodyStepDropsRepeat(cur, buckets, text) ==
    IF cur # None /\ \A i \in 1..Len(buckets[cur]) : buckets[cur][i] # text
    THEN [cur |-> cur, out |-> AppendTo(buckets, cur, text)]
    ELSE [cur |-> cur, out |-> buckets]

\* The else branch of the pseudo-heading loop:
\* if current_section: out[current_section].append(text)
BodyStep(cur, buckets, text) ==
    IF cur # None THEN [cur |-> cur, out |-> AppendTo(buckets, cur, text)]
    ELSE [cur |-> cur, out |-> buckets]

\* Variant: "continue" after the heading loop whether or not it matched.
ClassifyParagraphSkipsHeadings(cur, buckets, para) ==
    LET text == Strip(para.text) IN
    IF text = <<>> THEN BlankStep(cur, buckets)
    ELSE IF IsHeadingStyle(para.style)
    THEN IF HeadingMatch(text) # None THEN SwitchStep(buckets, HeadingMatch(text), text) ELSE [cur |-> cur, out |-> buckets]
    ELSE IF PseudoHeadingMatch(text) # None
    THEN SwitchStep(buckets, PseudoHeadingMatch(text), text)
    ELSE BodyStep(cur, buckets, text)

\* Variant: the heading path has no "continue", so a paragraph that switched
\* there goes on to the pseudo-heading test and the body append.
ClassifyParagraphFallsThrough(cur, buckets, para) ==
    LET text == Strip(para.text)
        first == IF IsHeadingStyle(para.style) /\ HeadingMatch(text) # None
                 THEN SwitchStep(buckets, HeadingMatch(text), text)
                 ELSE [cur |-> cur, out |-> buckets]
    IN  IF text = <<>> THEN BlankStep(cur, buckets)
        ELSE IF PseudoHeadingMatch(text) # None
        THEN SwitchStep(first.out, PseudoHeadingMatch(text), text)
        ELSE BodyStep(first.cur, first.out, text)

\* One iteration of "for para in doc.paragraphs": the new cursor and buckets.
ClassifyParagraph(cur, buckets, para) ==
    LET text == Strip(para.text) IN
    IF text = <<>> THEN BlankStep(cur, buckets)
    ELSE IF IsHeadingStyle(para.style) /\ HeadingMatch(text) # None
    THEN SwitchStep(buckets, HeadingMatch(text), text)
    ELSE IF PseudoHeadingMatch(text) # None
    THEN SwitchStep(buckets, PseudoHeadingMatch(text), text)
    ELSE BodyStep(cur, buckets, text)

\* The whole loop over a paragraph sequence, from a given cursor and buckets.
RECURSIVE LoopFrom(_, _, _)
LoopFrom(cur, buckets, paras) ==
    IF paras = <<>> THEN [cur |-> cur, out |-> buckets]
    ELSE LET step == ClassifyParagraph(cur, buckets, Head(paras)) IN LoopFrom(step.cur, step.out, Tail(paras))

\* extract_sections_from_docx on a document that opens: lines 152-189.
ExtractSections(paras) == Assemble(LoopFrom(NewCursor(None), NewBuckets(Unbound), paras).out)

\* ------------------------------------------------------------------ inputs
Para(style, text) == [style |-> style, text |-> text]

StyleHeading1 == <<T("heading"), Sp, D("1")>>
StyleLowerHeading == <<L("heading"), Sp, D("2")>>
StyleNormal == <<T("normal")>>
StyleNone == <<>>

X6 == <<Sp, L("x"), Sp, L("x"), Sp, L("x"), Sp, L("x"), Sp, L("x"), Sp, L("x")>>
UX6 == <<Sp, U("x"), Sp, U("x"), Sp, U("x"), Sp, U("x"), Sp, U("x"), Sp, U("x")>>

\* The paragraphs a document is made of: blank, heading-styled and plain,
\* short and long, lower- and upper-case, matching no, one or two rules.
Paragraphs ==
    { Para(StyleHeading1, <<Sp, Sp>>),
      Para(StyleHeading1, <<T("discovery")>>),
      Para(StyleHeading1, <<Sp, U("design"), Sp>>),
      Para(StyleLowerHeading, <<L("requirement"), L("s")>> \o X6),
      Para(StyleHeading1, <<L("design"), Sp, L("discovery")>>),
      Para(StyleHeading1, <<U("x"), Sp, D("2")>>),
      Para(StyleNormal, <<L("integration"), Sp, L("design")>>),
      Para(StyleNormal, <<L("x"), Sp, L("x"), Sp, L("x"), Sp, L("x"), Sp, L("x"), Sp, L("roadmap")>>),
      Para(StyleNormal, <<L("roadmap")>> \o X6),
      Para(StyleNormal, <<U("roadmap")>> \o UX6),
      Para(StyleNormal, <<Sp, L("y"), Sp, L("x"), Sp>>),
      Para(StyleNormal, <<T("final"), Sp, L("readout")>>),
      Para(StyleNormal, <<L("x"), L("design")>>),
      Para(StyleNone, <<L("integration"), L("s")>>) }

DocxPaths == {PathNone, <<>>, <<Lit("/mnt/data/JIBC_Workshop_Facilitation_Guidebook_Full.docx")>>}

\* What DocxDocument(...) raises, or NoError when it returns a document.
NoError == <<>>

OpenErrors == {<<Lit("File is not a zip file")>>}

\* ------------------------------------------------------------------- state
VARIABLES
    DocxDocument,     \* the module global: None or the python-docx Document class
    doc,              \* doc.paragraphs, as far as the iteration has produced it
    idx,              \* number of paragraphs the loop has consumed in this call
    current_section,  \* local of extract_sections_from_docx
    out,              \* local of extract_sections_from_docx
    result,           \* what this call returned, NoResult while it runs
    pc,               \* "idle", "loop" or "done"
    path,             \* how the last call ended: "none", "unavailable", "notfound", "openfail", "normal"
    run,              \* number of calls made so far
    prev,             \* the result of the previous call
    replay,           \* TRUE when this call reads the document the previous call read
    other,            \* the frame of a second invocation, running in another session's thread
    session_state,    \* st.session_state of one browser session
    rendered,         \* what the last script run of that session did and put on the page
    revs,             \* the four revisions of extract_sections_from_docx, run side by side on one document
    fs                \* one call of docx_to_pdf_bytes and the files it deals with

vars == <<DocxDocument, doc, idx, current_section, out, result, pc, path, run, prev, replay, other, session_state, rendered, revs, fs>>

\* The four source files, oldest first.
Revisions == <<"old1", "updated", "v6", "v9">>

RevisionSet == {Revisions[i] : i \in 1..Len(Revisions)}

\* The four revisions before they are called.
IdleRevisions ==
    [ pc |-> "idle", doc |-> <<>>, idx |-> 0,
      frames |-> [rev \in RevisionSet |-> [current_section |-> None, out |-> Unbound, result |-> NoResult, path |-> "none"]] ]

\* docx_to_pdf_bytes before it is called: no temporary file, no temporary
\* directory.
NotCalled ==
    [ pc |-> "idle",               \* "idle", "entered", "soffice", "docx2pdf", "failed" or "done"
      docx_path |-> "none",        \* the argument: "none" or "given"
      docx_bytes |-> "none",       \* the argument: "none" or "given"
      caller_file |-> "unknown",   \* the file at docx_path: "unknown", "exists", "absent" or "deleted"
      temp_in |-> "none",          \* the NamedTemporaryFile: "none", "exists" or "removed"
      out_dir |-> "none",          \* the mkdtemp directory: "none", "exists" or "removed"
      files |-> {},                \* the files the converters left in out_dir
      in_path |-> "none",          \* "none", "caller" or "temp"
      cleanup_in |-> FALSE,
      soffice |-> "unasked",       \* what shutil.which found: "none", "soffice" or "libreoffice"
      docx2pdf |-> "unasked",      \* "imported" or "missing"
      returned |-> "nothing",      \* "nothing", "None" or "data"
      via |-> "none" ]             \* the return taken: "no input", "soffice", "docx2pdf" or "failed"

\* A key that st.session_state does not hold.
Absent == "Absent"

\* The record of a script run that has not happened.
NoRun ==
    [ run |-> "none",            \* "none", "bootstrap" or "page"
      ensured |-> {},            \* the packages ensure_dependency was called for
      click |-> "none",          \* the button whose click caused the run
      view |-> "none",           \* "none", "dashboard" or "section"
      heading |-> None,          \* the phase named in the subheader
      content |-> "none",        \* what stands below the subheader
      steps |-> <<>>,            \* the PDF display steps attempted, in order
      mode |-> None,             \* the PDF display mode the dashboard used
      guide_mode |-> None,       \* the guidebook display mode the section view used
      uploaded_pdf |-> FALSE,
      uploaded_docx |-> FALSE,
      pdf_opened |-> {},         \* where the PDF was read from: "bytes", "path"
      docx_opened |-> {},        \* where the DOCX was read from: "bytes", "path"
      found |-> {} ]             \* the configured paths diagnostics() reported as found

\* The frame of an invocation that has not been entered.
IdleFrame == [doc |-> <<>>, idx |-> 0, current_section |-> None, out |-> Unbound, result |-> NoResult, pc |-> "idle", path |-> "none"]

\* Variant: the name is bound at module level, so an invocation reads what
\* the other invocation wrote last.
GlobalBinding(own, foreign) == foreign

\* A name assigned in the function and not declared global (line 145
\* declares DocxDocument only) is bound in the invocation's own frame.
LocalBinding(own, foreign) == own


Init ==
    /\ DocxDocument \in {None, "Document"}
    /\ doc = <<>>
    /\ idx = 0
    /\ current_section = None
    /\ out = Unbound
    /\ result = NoResult
    /\ pc = "idle"
    /\ path = "none"
    /\ run = 0
    /\ prev = NoResult
    /\ replay = FALSE
    /\ other = IdleFrame
    /\ session_state = [deps_bootstrapped |-> Absent, current_section |-> Absent]
    /\ rendered = NoRun
    /\ revs = IdleRevisions
    /\ fs = NotCalled

\* Lines 145-163: the call up to the start of the loop.  import_ok, exists
\* and open_error are the answers of the environment.
Call(docx_path, docx_bytes, import_ok, exists, open_error) ==
    /\ run' = run + 1
    /\ UNCHANGED <<other, session_state, rendered, revs, fs>>
    /\ idx' = 0
    /\ IF DocxDocument = None /\ ~import_ok
       THEN /\ result' = [s \in SectionSet |-> NotAvailableMessage]
            /\ pc' = "done"
            /\ path' = "unavailable"
            /\ UNCHANGED <<DocxDocument, out, current_section>>
       ELSE /\ DocxDocument' = "Document"
            /\ out' = NewBuckets(out)
            /\ IF docx_bytes = None /\ ~(Truthy(docx_path) /\ exists)
               THEN /\ result' = [s \in SectionSet |-> NotFoundMessage(docx_path)]
                    /\ pc' = "done"
                    /\ path' = "notfound"
                    /\ UNCHANGED current_section
               ELSE IF open_error # NoError
               THEN /\ result' = [s \in SectionSet |-> OpenFailedMessage(open_error)]
                    /\ pc' = "done"
                    /\ path' = "openfail"
                    /\ UNCHANGED current_section
               ELSE /\ current_section' = NewCursor(current_section)
                    /\ pc' = "loop"
                    /\ path' = "normal"
                    /\ result' = NoResult

\* The first call of the process.
Invoke ==
    /\ pc = "idle"
    /\ \E docx_path \in DocxPaths, docx_bytes \in {None, "bytes"}, import_ok \in BOOLEAN, exists \in BOOLEAN, open_error \in OpenErrors \cup {NoError} :
           Call(docx_path, docx_bytes, import_ok, exists, open_error)
    /\ doc' = <<>>
    /\ UNCHANGED <<prev, replay>>

\* One iteration of the loop.  The paragraph is the next one of the document;
\* a document not read before produces it now.
ProcessParagraphOf(paragraphs, bound) ==
    /\ pc = "loop"
    /\ \/ /\ idx < Len(doc)
          /\ UNCHANGED doc
       \/ /\ idx = Len(doc)
          /\ ~replay
          /\ Len(doc) < bound
          /\ \E para \in paragraphs : doc' = Append(doc, para)
    /\ idx' = idx + 1
    /\ LET step == ClassifyParagraph(LocalBinding(current_section, other.current_section), out, doc'[idx + 1]) IN
        /\ current_section' = step.cur
        /\ out' = step.out
    /\ UNCHANGED <<DocxDocument, result, pc, path, run, prev, replay, other, session_state, rendered, revs, fs>>

\* The loop over documents of at most bound paragraphs drawn from Paragraphs.
ProcessParagraphUpTo(bound) == ProcessParagraphOf(Paragraphs, bound)

ProcessParagraph == ProcessParagraphUpTo(MaxParas)

\* Line 189: the document is exhausted.
Return ==
    /\ pc = "loop"
    /\ idx = Len(doc)
    /\ result' = Assemble(out)
    /\ pc' = "done"
    /\ UNCHANGED <<DocxDocument, doc, idx, current_section, out, path, run, prev, replay, other, session_state, rendered, revs, fs>>

Next == Invoke \/ ProcessParagraph \/ Return

Spec == Init /\ [][Next]_vars

\* ------------------------------------------------- repeated invocations
\* A later call of the same process on the document the previous call read.
ReinvokeSame ==
    /\ pc = "done"
    /\ path = "normal"
    /\ run < MaxRuns
    /\ \E docx_path \in DocxPaths, docx_bytes \in {None, "bytes"}, import_ok \in BOOLEAN, exists \in BOOLEAN, open_error \in OpenErrors \cup {NoError} :
           Call(docx_path, docx_bytes, import_ok, exists, open_error)
    /\ prev' = result
    /\ replay' = TRUE
    /\ UNCHANGED doc

\* A later call of the same process on another document.
ReinvokeOther ==
    /\ pc = "done"
    /\ run < MaxRuns
    /\ \E docx_path \in DocxPaths, docx_bytes \in {None, "bytes"}, import_ok \in BOOLEAN, exists \in BOOLEAN, open_error \in OpenErrors \cup {NoError} :
           Call(docx_path, docx_bytes, import_ok, exists, open_error)
    /\ prev' = NoResult
    /\ replay' = FALSE
    /\ doc' = <<>>

ProcessParagraphRerun == ProcessParagraphUpTo(MaxRerunParas)

NextRerun == Invoke \/ ReinvokeSame \/ ReinvokeOther \/ ProcessParagraphRerun \/ Return

SpecRerun == Init /\ [][NextRerun]_vars

\* ------------------------------------------------ interleaved invocations
\* Lines 145-163 in the second frame: the frame after the call has reached
\* the loop or returned before it.
EnterFrame(docx_path, docx_bytes, import_ok, exists, open_error) ==
    IF DocxDocument = None /\ ~import_ok
    THEN [IdleFrame EXCEPT !.result = [s \in SectionSet |-> NotAvailableMessage], !.pc = "done", !.path = "unavailable"]
    ELSE IF docx_bytes = None /\ ~(Truthy(docx_path) /\ exists)
    THEN [IdleFrame EXCEPT !.out = NewBuckets(Unbound), !.result = [s \in SectionSet |-> NotFoundMessage(docx_path)], !.pc = "done", !.path = "notfound"]
    ELSE IF open_error # NoError
    THEN [IdleFrame EXCEPT !.out = NewBuckets(Unbound), !.result = [s \in SectionSet |-> OpenFailedMessage(open_error)], !.pc = "done", !.path = "openfail"]
    ELSE [IdleFrame EXCEPT !.out = NewBuckets(Unbound), !.current_section = NewCursor(None), !.pc = "loop", !.path = "normal"]

\* The second session calls extract_sections_from_docx.
InvokeOther ==
    /\ other.pc = "idle"
    /\ \E docx_path \in DocxPaths, docx_bytes \in {None, "bytes"}, import_ok \in BOOLEAN, exists \in BOOLEAN, open_error \in OpenErrors \cup {NoError} :
          /\ other' = EnterFrame(docx_path, docx_bytes, import_ok, exists, open_error)
          /\ DocxDocument' = IF DocxDocument = None /\ ~import_ok THEN None ELSE "Document"
    /\ UNCHANGED <<doc, idx, current_section, out, result, pc, path, run, prev, replay, session_state, rendered, revs, fs>>

\* The paragraphs of the documents read by interleaved invocations.
InterleavedParagraphs ==
    { Para(StyleHeading1, <<T("discovery")>>),
      Para(StyleNormal, <<L("integration"), Sp, L("design")>>),
      Para(StyleNormal, <<Sp, L("y"), Sp, L("x"), Sp>>),
      Para(StyleHeading1, <<Sp, Sp>>) }

\* One iteration of the loop in the second frame.
ProcessParagraphOther ==
    /\ other.pc = "loop"
    /\ \E paras \in {other.doc} \cup {Append(other.doc, para) : para \in InterleavedParagraphs} :
          /\ IF other.idx < Len(other.doc) THEN paras = other.doc ELSE Len(other.doc) < MaxInterleavedParas /\ paras # other.doc
          /\ LET step == ClassifyParagraph(LocalBinding(other.current_section, current_section), other.out, paras[other.idx + 1]) IN
                other' = [other EXCEPT !.doc = paras, !.idx = @ + 1, !.current_section = step.cur, !.out = step.out]
    /\ UNCHANGED <<DocxDocument, doc, idx, current_section, out, result, pc, path, run, prev, replay, session_state, rendered, revs, fs>>

\* Line 189 in the second frame.
ReturnOther ==
    /\ other.pc = "loop"
    /\ other.idx = Len(other.doc)
    /\ other' = [other EXCEPT !.result = Assemble(other.out), !.pc = "done"]
    /\ UNCHANGED <<DocxDocument, doc, idx, current_section, out, result, pc, path, run, prev, replay, session_state, rendered, revs, fs>>

ProcessParagraphInterleaved == ProcessParagraphOf(InterleavedParagraphs, MaxInterleavedParas)

NextInterleaved == Invoke \/ ProcessParagraphInterleaved \/ Return \/ InvokeOther \/ ProcessParagraphOther \/ ReturnOther

SpecInterleaved == Init /\ [][NextInterleaved]_vars

\* ------------------------------------------------------- the page script
\* A configured path enters the model as the value of "path and
\* os.path.exists(path)", the only way the code looks at it (lines 82, 102,
\* 127, 157, 195, 272, 312, 314); uploaded bytes are None or "bytes".

\* st.session_state.get(key, default)
SessionGet(state, key, default) == IF state[key] = Absent THEN default ELSE state[key]

\* Variant: the bootstrap does not record that it ran.
MarkBootstrappedForgotten(state) == state

\* st.session_state["deps_bootstrapped"] = True
MarkBootstrapped(state) == [state EXCEPT !.deps_bootstrapped = "True"]

\* Variant: the "Show Dashboard PDF" button leaves the selector alone.
AfterButtonsNoReset(selector, click) == IF click \in SectionSet THEN click ELSE selector

\* show_sidebar_navigation: the selector after the buttons were evaluated;
\* click is the button whose click caused this run, or "none".
AfterButtons(selector, click) ==
    IF click \in SectionSet THEN click
    ELSE IF click = "show_pdf" THEN None
    ELSE selector

\* Variant: the configured path is passed on whether or not bytes came.
PathArgAlways(found, bytes) == found

\* "path if bytes is None else None": the path argument of the callees.
PathArg(found, bytes) == IF bytes = None THEN found ELSE FALSE

\* pdf_to_images; outcome is "no_fitz", "render_error" or "images".
PdfToImages(found, bytes, outcome) ==
    IF outcome = "no_fitz" THEN [images |-> FALSE, opened |-> {}]
    ELSE IF bytes # None THEN [images |-> outcome = "images", opened |-> {"bytes"}]
    ELSE IF found THEN [images |-> outcome = "images", opened |-> {"path"}]
    ELSE [images |-> FALSE, opened |-> {}]

\* embed_pdf_as_data_uri: the whole body is inside try/except Exception, so
\* the call returns whatever happens; embed_error is an exception in the body.
EmbedPdfAsDataUri(found, bytes, embed_error) ==
    IF bytes = None /\ ~found THEN [shown |-> "warning", opened |-> {}, raised |-> FALSE]
    ELSE [shown |-> IF embed_error THEN "error" ELSE "data_uri",
          opened |-> IF bytes = None THEN {"path"} ELSE {"bytes"},
          raised |-> FALSE]

\* embed_pdf_as_file_url
EmbedPdfAsFileUrl(found, bytes, embed_error) ==
    IF bytes = None /\ ~found THEN [shown |-> "warning", opened |-> {}]
    ELSE [shown |-> IF embed_error THEN "error" ELSE "file_url",
          opened |-> IF bytes = None THEN {"path"} ELSE {"bytes"}]

\* The four options of the "PDF display mode" radio; the first is the default.
Modes == <<"Auto", "Images only", "Data-URI only", "File URL only">>

\* show_pdf_view
ShowPdfView(found, bytes, mode, outcome, embed_error) ==
    LET images == PdfToImages(IF bytes # None THEN FALSE ELSE found, bytes, outcome)
        data_uri == EmbedPdfAsDataUri(found, None, embed_error)
        file_url == EmbedPdfAsFileUrl(found, None, embed_error)
    IN  IF bytes # None
        THEN [content |-> IF images.images THEN "images" ELSE "error", steps |-> <<"images">>, opened |-> images.opened]
        ELSE IF mode = "Images only"
        THEN [content |-> IF images.images THEN "images" ELSE "warning", steps |-> <<"images">>, opened |-> images.opened]
        ELSE IF mode = "Data-URI only"
        THEN [content |-> data_uri.shown, steps |-> <<"data_uri">>, opened |-> data_uri.opened]
        ELSE IF mode = "File URL only"
        THEN [content |-> file_url.shown, steps |-> <<"file_url">>, opened |-> file_url.opened]
        ELSE IF images.images
        THEN [content |-> "images", steps |-> <<"images">>, opened |-> images.opened]
        ELSE IF data_uri.raised
        THEN [content |-> file_url.shown, steps |-> <<"images", "data_uri", "file_url">>, opened |-> images.opened \cup data_uri.opened \cup file_url.opened]
        ELSE [content |-> data_uri.shown, steps |-> <<"images", "data_uri">>, opened |-> images.opened \cup data_uri.opened]

\* Lines 145-159 of extract_sections_from_docx: where the document is
\* opened from; nothing is opened when the parser is not available.
ExtractOpens(found, bytes, parser_ok) ==
    IF DocxDocument = None /\ ~parser_ok THEN {}
    ELSE IF bytes # None THEN {"bytes"}
    ELSE IF found THEN {"path"}
    ELSE {}

\* docx_to_html; lib_ok: mammoth is there and converts.
DocxToHtml(found, bytes, lib_ok) ==
    IF bytes # None THEN [made |-> lib_ok, opened |-> {"bytes"}]
    ELSE IF found THEN [made |-> lib_ok, opened |-> {"path"}]
    ELSE [made |-> FALSE, opened |-> {}]

\* docx_to_pdf_bytes, called by render_docx_as_images: the path is looked at
\* first, the bytes second; lib_ok: a converter is there and converts.
DocxToPdfBytes(found, bytes, lib_ok) ==
    IF found THEN [made |-> lib_ok, opened |-> {"path"}]
    ELSE IF bytes # None THEN [made |-> lib_ok, opened |-> {"bytes"}]
    ELSE [made |-> FALSE, opened |-> {}]

\* The three options of the "Guidebook display mode" radio; the first is the default.
GuideModes == <<"Extracted text", "Page images", "HTML">>

\* Lines 409-431: the view of a selected phase.
ShowSection(found, bytes, guide_mode, lib_ok) ==
    LET html_doc == DocxToHtml(PathArg(found, bytes), bytes, lib_ok)
        imgs == DocxToPdfBytes(PathArg(found, bytes), bytes, lib_ok)
    IN  IF guide_mode = "Extracted text" THEN [content |-> "section_text", opened |-> {}]
        ELSE IF guide_mode = "HTML" THEN [content |-> IF html_doc.made THEN "guidebook_html" ELSE "error", opened |-> html_doc.opened]
        ELSE [content |-> IF imgs.made THEN "guidebook_pages" ELSE "error", opened |-> imgs.opened]

\* diagnostics: the configured paths the sidebar reports as found.  The paths
\* are tested with os.path.exists whether or not a file was uploaded; nothing
\* is opened.
Diagnostics(pdf_found, docx_found) == {"pdf_path" : x \in {pdf_found} \ {FALSE}} \cup {"docx_path" : x \in {docx_found} \ {FALSE}}

\* The buttons of the sidebar, and "none" for a run no button caused.
Clicks == {"none", "show_pdf"} \cup SectionSet

\* Lines 359-364: the run of a session whose flag is not set.
BootstrapRun ==
    /\ SessionGet(session_state, "deps_bootstrapped", "False") # "True"
    /\ session_state' = MarkBootstrapped(session_state)
    /\ rendered' = [NoRun EXCEPT !.run = "bootstrap", !.ensured = {"python-docx", "pymupdf", "mammoth"}]
    /\ UNCHANGED <<DocxDocument, doc, idx, current_section, out, result, pc, path, run, prev, replay, other, revs, fs>>

\* Lines 366-434: a run that gets past the bootstrap.  The widgets answer
\* with their defaults in the first run that draws them.
PageRun ==
    /\ SessionGet(session_state, "deps_bootstrapped", "False") = "True"
    /\ \E click \in Clicks, uploaded_pdf \in BOOLEAN, uploaded_docx \in BOOLEAN, pdf_found \in BOOLEAN, docx_found \in BOOLEAN, parser_ok \in BOOLEAN :
          /\ rendered.run # "page" => click = "none" /\ ~uploaded_pdf /\ ~uploaded_docx
          /\ LET pdf_bytes == IF uploaded_pdf THEN "bytes" ELSE None
                 docx_bytes == IF uploaded_docx THEN "bytes" ELSE None
                 initialised == IF session_state.current_section = Absent THEN None ELSE session_state.current_section
                 selector == AfterButtons(initialised, click)
                 extracted == ExtractOpens(PathArg(docx_found, docx_bytes), docx_bytes, parser_ok)
                 common == [NoRun EXCEPT !.run = "page", !.click = click, !.uploaded_pdf = uploaded_pdf, !.uploaded_docx = uploaded_docx,
                                         !.found = Diagnostics(pdf_found, docx_found), !.docx_opened = extracted]
             IN  /\ session_state' = [session_state EXCEPT !.current_section = selector]
                 /\ DocxDocument' = IF DocxDocument = None /\ ~parser_ok THEN None ELSE "Document"
                 /\ IF selector = None
                    THEN \E mode \in {Modes[i] : i \in 1..Len(Modes)},
                            outcome \in {"no_fitz", "render_error", "images"}, embed_error \in BOOLEAN :
                            /\ rendered.run # "page" => mode = Modes[1]
                            /\ LET pdf_view == ShowPdfView(PathArg(pdf_found, pdf_bytes), pdf_bytes, mode, outcome, embed_error) IN
                                  rendered' = [common EXCEPT !.view = "dashboard", !.content = pdf_view.content, !.steps = pdf_view.steps,
                                                             !.mode = mode, !.pdf_opened = pdf_view.opened]
                    ELSE \E guide_mode \in {GuideModes[i] : i \in 1..Len(GuideModes)}, lib_ok \in BOOLEAN :
                            LET section == ShowSection(docx_found, docx_bytes, guide_mode, lib_ok) IN
                              rendered' = [common EXCEPT !.view = "section", !.heading = selector, !.content = section.content,
                                                         !.guide_mode = guide_mode, !.docx_opened = extracted \cup section.opened]
    /\ UNCHANGED <<doc, idx, current_section, out, result, pc, path, run, prev, replay, other, revs, fs>>

NextPage == BootstrapRun \/ PageRun

SpecPage == Init /\ [][NextPage]_vars

\* ---------------------------------------------------------- the revisions
\* The four files hold four revisions of extract_sections_from_docx.  They
\* differ in the patterns, in the messages and in how the document is opened;
\* the loop is the same in all four.

\* The two characters backslash and b, which the patterns of
\* hoba_app_updated.py demand literally: r"\\bdiscovery\\b".
BackslashB == Pn("\\b")

\* Atom i of t is the literal backslash-b.
LiteralAt(t, i) == i \in 1..Len(t) /\ t[i] = BackslashB

\* PHASE_PATTERNS[sec].search(t) in hoba_app_updated.py, lines 33-40.
LiteralPatternSearch(sec, t) ==
    CASE sec = "DISCOVERY" -> \E i \in 1..Len(t) : LiteralAt(t, i - 1) /\ Spells(t, i, "discovery") /\ LiteralAt(t, i + 1)
      [] sec = "DESIGN" -> \E i \in 1..Len(t) : LiteralAt(t, i - 1) /\ Spells(t, i, "design") /\ LiteralAt(t, i + 1)
      [] sec = "REQUIREMENTS" -> \E i \in 1..Len(t) :
             /\ LiteralAt(t, i - 1) /\ Spells(t, i, "requirement")
             /\ LiteralAt(t, i + 1) \/ (Spells(t, i + 1, "s") /\ LiteralAt(t, i + 2))
      [] sec = "INTEGRATION" -> \E i \in 1..Len(t) :
             /\ LiteralAt(t, i - 1) /\ Spells(t, i, "integration")
             /\ LiteralAt(t, i + 1) \/ (Spells(t, i + 1, "s") /\ LiteralAt(t, i + 2))
      [] sec = "ROADMAP" -> \E i \in 1..Len(t) : LiteralAt(t, i - 1) /\ Spells(t, i, "roadmap") /\ LiteralAt(t, i + 1)
      [] sec = "FINALIZATION" ->
             \/ \E i \in 1..Len(t) : LiteralAt(t, i - 1) /\ (Spells(t, i, "finalization") \/ Spells(t, i, "finalisation"))
             \/ \E i \in 1..Len(t) : Spells(t, i, "final") /\ i + 2 <= Len(t) /\ t[i + 1] = Sp /\ Spells(t, i + 2, "readout")
             \/ \E i \in 1..Len(t) : Spells(t, i, "approval") /\ LiteralAt(t, i + 1)

PatternSearchIn(rev, sec, t) == IF rev = "updated" THEN LiteralPatternSearch(sec, t) ELSE PatternSearch(sec, t)

\* The em dash of the messages is stored in old1 and in hoba_app_updated.py
\* as the bytes c3 a2 e2 82 ac e2 80 9d (the dash decoded as cp1252 and
\* encoded again), written "a^EUR^''" here; v6 and v9 have the dash itself.
NoContentMessageIn(rev) ==
    IF rev \in {"old1", "updated"}
    THEN <<Lit("*(No section content found a^EUR^'' check headings/keywords in the DOCX)*")>>
    ELSE NoContentMessage

NotAvailableMessageIn(rev) ==
    IF rev \in {"old1", "updated"}
    THEN <<Lit("*(python-docx not available a^EUR^'' install with pip install python-docx)*")>>
    ELSE NotAvailableMessage

\* old1 prints the path as it is; the later revisions print
\* "[uploaded bytes missing]" for an empty path.
NotFoundMessageIn(rev, docx_path) ==
    IF rev = "old1" THEN <<Lit("*(DOCX not found at ")>> \o docx_path \o <<Lit(")*")>>
    ELSE NotFoundMessage(docx_path)

HeadingMatchIn(rev, text) == FirstInOrder([i \in 1..Len(PHASE_PATTERNS) |-> PatternSearchIn(rev, PHASE_PATTERNS[i], text)])

\* old1 writes the test as "search and isupper or search and short".
PseudoHeadingMatchIn(rev, text) ==
    FirstInOrder([i \in 1..Len(PHASE_PATTERNS) |->
        IF rev = "old1"
        THEN (PatternSearchIn(rev, PHASE_PATTERNS[i], text) /\ IsUpper(text)) \/ (PatternSearchIn(rev, PHASE_PATTERNS[i], text) /\ WordCount(text) <= PseudoHeadingMaxWords)
        ELSE PatternSearchIn(rev, PHASE_PATTERNS[i], text) /\ PseudoHeadingCondition(text)])

\* One iteration of the loop in revision rev.
ClassifyParagraphIn(rev, cur, buckets, para) ==
    LET text == Strip(para.text) IN
    IF text = <<>> THEN BlankStep(cur, buckets)
    ELSE IF IsHeadingStyle(para.style) /\ HeadingMatchIn(rev, text) # None
    THEN SwitchStep(buckets, HeadingMatchIn(rev, text), text)
    ELSE IF PseudoHeadingMatchIn(rev, text) # None
    THEN SwitchStep(buckets, PseudoHeadingMatchIn(rev, text), text)
    ELSE BodyStep(cur, buckets, text)

\* The final join in revision rev.
AssembleIn(rev, buckets) == [s \in SectionSet |-> IF buckets[s] # <<>> THEN Join(buckets[s]) ELSE NoContentMessageIn(rev)]

\* What DocxDocument(...) raising e leads to: old1 calls it outside any try
\* (line 100), so the exception leaves the function; the later revisions
\* return the message of their except branch.
OpenFailureIn(rev, e) ==
    IF rev = "old1" THEN [path |-> "raised", result |-> NoResult]
    ELSE [path |-> "openfail", result |-> [s \in SectionSet |-> OpenFailedMessage(e)]]

\* The call of revision rev up to the loop, for a document given by path.
\* available: the import at module level worked; import_ok: the import that
\* v9 tries again inside the function works.
EnterRevision(rev, available, import_ok, docx_path, exists, open_error) ==
    LET frame == [current_section |-> None, out |-> NewBuckets(Unbound), result |-> NoResult, path |-> "none"] IN
    IF ~available /\ ~(rev = "v9" /\ import_ok)
    THEN [frame EXCEPT !.path = "unavailable", !.result = [s \in SectionSet |-> NotAvailableMessageIn(rev)],
                       !.out = IF rev = "v9" THEN Unbound ELSE @]
    ELSE IF ~(IF rev = "old1" THEN exists ELSE Truthy(docx_path) /\ exists)
    THEN [frame EXCEPT !.path = "notfound", !.result = [s \in SectionSet |-> NotFoundMessageIn(rev, docx_path)]]
    ELSE IF open_error # NoError
    THEN [frame EXCEPT !.path = OpenFailureIn(rev, open_error).path, !.result = OpenFailureIn(rev, open_error).result]
    ELSE [frame EXCEPT !.path = "normal"]

\* The paragraphs of the documents the revisions are compared on.
RevisionParagraphs ==
    { Para(StyleHeading1, <<T("discovery")>>),
      Para(StyleNormal, <<T("final"), Sp, L("readout")>>),
      Para(StyleNormal, <<BackslashB, L("design"), BackslashB>>),
      Para(StyleNormal, <<Sp, L("y"), Sp, L("x"), Sp>>),
      Para(StyleHeading1, <<Sp, Sp>>) }

\* All four revisions are called on the same document in the same environment.
\* An empty path exists for nobody.
InvokeRevisions ==
    /\ revs.pc = "idle"
    /\ \E available \in BOOLEAN, import_ok \in BOOLEAN, docx_path \in DocxPaths \ {PathNone}, exists \in BOOLEAN, open_error \in OpenErrors \cup {NoError} :
          /\ ~Truthy(docx_path) => ~exists
          /\ available => import_ok
          /\ LET frames == [rev \in RevisionSet |-> EnterRevision(rev, available, import_ok, docx_path, exists, open_error)] IN
                revs' = [pc |-> IF \E rev \in RevisionSet : frames[rev].path = "normal" THEN "loop" ELSE "done",
                         doc |-> <<>>, idx |-> 0, frames |-> frames]
    /\ UNCHANGED <<DocxDocument, doc, idx, current_section, out, result, pc, path, run, prev, replay, other, session_state, rendered, fs>>

\* The revisions that reached their loop take the next paragraph.
ProcessParagraphRevisions ==
    /\ revs.pc = "loop"
    /\ Len(revs.doc) < MaxRevisionParas
    /\ \E para \in RevisionParagraphs :
          revs' = [revs EXCEPT !.doc = Append(@, para), !.idx = @ + 1,
                               !.frames = [rev \in RevisionSet |->
                                   IF revs.frames[rev].path = "normal"
                                   THEN LET step == ClassifyParagraphIn(rev, revs.frames[rev].current_section, revs.frames[rev].out, para)
                                        IN  [revs.frames[rev] EXCEPT !.current_section = step.cur, !.out = step.out]
                                   ELSE revs.frames[rev]]]
    /\ UNCHANGED <<DocxDocument, doc, idx, current_section, out, result, pc, path, run, prev, replay, other, session_state, rendered, fs>>

\* The document is exhausted: the revisions in their loop return.
ReturnRevisions ==
    /\ revs.pc = "loop"
    /\ revs' = [revs EXCEPT !.pc = "done",
                            !.frames = [rev \in RevisionSet |->
                                IF revs.frames[rev].path = "normal"
                                THEN [revs.frames[rev] EXCEPT !.result = AssembleIn(rev, revs.frames[rev].out)]
                                ELSE revs.frames[rev]]]
    /\ UNCHANGED <<DocxDocument, doc, idx, current_section, out, result, pc, path, run, prev, replay, other, session_state, rendered, fs>>

NextRevisions == InvokeRevisions \/ ProcessParagraphRevisions \/ ReturnRevisions

SpecRevisions == Init /\ [][NextRevisions]_vars

\* -------------------------------------------------------- docx_to_pdf_bytes
\* The function works on the file system: the caller's document, the temporary
\* input file written from uploaded bytes, and the temporary output directory
\* with the files the converters leave in it.

\* os.unlink(in_path) inside try/except-pass (lines 223-225, 239-241, 246-248):
\* only the function's own temporary file is ever unlinked, and a failing
\* unlink is swallowed.
CleanupIn(f, unlink_ok) == IF f.cleanup_in /\ unlink_ok THEN [f EXCEPT !.temp_in = "removed"] ELSE f

\* Lines 192-205: the choice of the input file.
ConvertCall ==
    /\ fs.pc = "idle"
    /\ \E docx_path \in {"none", "given"}, exists \in BOOLEAN, docx_bytes \in {"none", "given"} :
          /\ docx_path = "none" => ~exists
          /\ LET called == [fs EXCEPT !.docx_path = docx_path, !.docx_bytes = docx_bytes,
                                      !.caller_file = IF docx_path = "none" THEN "unknown" ELSE IF exists THEN "exists" ELSE "absent"]
             IN  fs' = IF docx_path = "given" /\ exists
                       THEN [called EXCEPT !.pc = "entered", !.in_path = "caller", !.cleanup_in = FALSE]
                       ELSE IF docx_bytes # "none"
                       THEN [called EXCEPT !.pc = "entered", !.temp_in = "exists", !.in_path = "temp", !.cleanup_in = TRUE]
                       ELSE [called EXCEPT !.pc = "done", !.returned = "None", !.via = "no input"]
    /\ UNCHANGED <<DocxDocument, doc, idx, current_section, out, result, pc, path, run, prev, replay, other, session_state, rendered, revs>>

\* Lines 207-208: tempfile.mkdtemp().
MakeOutDir ==
    /\ fs.pc = "entered"
    /\ fs' = [fs EXCEPT !.pc = "soffice", !.out_dir = "exists"]
    /\ UNCHANGED <<DocxDocument, doc, idx, current_section, out, result, pc, path, run, prev, replay, other, session_state, rendered, revs>>

\* Lines 211-228: LibreOffice.  call_ok: check_call returned; produced: the
\* PDF named after the input is in out_dir.  Without it open(out_pdf) raises
\* and the except branch falls through to docx2pdf.
TrySoffice ==
    /\ fs.pc = "soffice"
    /\ \E which \in {"none", "soffice", "libreoffice"}, call_ok \in BOOLEAN, produced \in BOOLEAN, unlink_ok \in BOOLEAN :
          /\ which = "none" => ~call_ok /\ ~produced
          /\ ~(call_ok /\ produced) => unlink_ok
          /\ LET tried == [fs EXCEPT !.soffice = which, !.files = IF produced THEN @ \cup {"guess.pdf"} ELSE @]
             IN  fs' = IF which # "none" /\ call_ok /\ produced
                       THEN [CleanupIn(tried, unlink_ok) EXCEPT !.pc = "done", !.returned = "data", !.via = "soffice"]
                       ELSE [tried EXCEPT !.pc = "docx2pdf"]
    /\ UNCHANGED <<DocxDocument, doc, idx, current_section, out, result, pc, path, run, prev, replay, other, session_state, rendered, revs>>

\* Lines 231-244: docx2pdf.  ensured: ensure_dependency returned True;
\* convert_ok: docx2pdf.convert returned; produced: converted.pdf exists.
TryDocx2pdf ==
    /\ fs.pc = "docx2pdf"
    /\ \E ensured \in BOOLEAN, convert_ok \in BOOLEAN, produced \in BOOLEAN, unlink_ok \in BOOLEAN :
          /\ ~ensured => ~convert_ok /\ ~produced
          /\ ~(convert_ok /\ produced) => unlink_ok
          /\ LET tried == [fs EXCEPT !.docx2pdf = IF ensured THEN "imported" ELSE "missing",
                                     !.files = IF produced THEN @ \cup {"converted.pdf"} ELSE @]
             IN  fs' = IF ensured /\ convert_ok /\ produced
                       THEN [CleanupIn(tried, unlink_ok) EXCEPT !.pc = "done", !.returned = "data", !.via = "docx2pdf"]
                       ELSE [tried EXCEPT !.pc = "failed"]
    /\ UNCHANGED <<DocxDocument, doc, idx, current_section, out, result, pc, path, run, prev, replay, other, session_state, rendered, revs>>

\* Lines 246-250: both converters failed.
ConvertFailed ==
    /\ fs.pc = "failed"
    /\ \E unlink_ok \in BOOLEAN :
          fs' = [CleanupIn(fs, unlink_ok) EXCEPT !.pc = "done", !.returned = "None", !.via = "failed"]
    /\ UNCHANGED <<DocxDocument, doc, idx, current_section, out, result, pc, path, run, prev, replay, other, session_state, rendered, revs>>

NextConvert == ConvertCall \/ MakeOutDir \/ TrySoffice \/ TryDocx2pdf \/ ConvertFailed

SpecConvert == Init /\ [][NextConvert]_vars

\* ------------------------------------------- documents of keyword variants
\* One-line paragraphs in which each rule's keywords stand alone, next to
\* punctuation, or inside a longer word ("xdesign", "design2", "designx").
KeywordTexts ==
    { <<L("discovery")>>, <<L("x"), L("discovery")>>, <<L("discovery"), L("x")>>,
      <<U("design")>>, <<L("x"), L("design")>>, <<L("design"), D("2")>>, <<L("design"), Pn(":"), Sp, L("x")>>,
      <<L("requirement")>>, <<T("requirement"), L("s")>>, <<L("requirement"), L("s"), L("x")>>, <<L("x"), L("requirement")>>,
      <<L("integration"), L("s")>>, <<L("x"), L("integration"), L("s")>>, <<L("integration"), L("y")>>,
      <<L("roadmap")>>, <<L("roadmap"), L("s")>>, <<D("2"), L("roadmap")>>,
      <<L("finalization")>>, <<T("finalisation")>>, <<L("finalization"), L("s")>>, <<L("x"), L("finalization")>>,
      <<L("final"), Sp, L("readout")>>, <<L("x"), L("final"), Sp, L("readout")>>, <<L("final"), Sp, L("readout"), L("s")>>,
      <<L("final"), Sp, Sp, L("readout")>>, <<L("final"), L("readout")>>,
      <<U("approval")>>, <<L("x"), L("approval")>>, <<L("approval"), L("s")>>, <<L("x"), Sp, L("approval"), Pn(".")>>,
      <<L("x"), Sp, L("y")>> }

KeywordParagraphs == {Para(StyleNormal, text) : text \in KeywordTexts} \cup {Para(StyleHeading1, text) : text \in KeywordTexts}

ProcessParagraphKeywords == ProcessParagraphOf(KeywordParagraphs, MaxKeywordParas)

NextKeywords == Invoke \/ ProcessParagraphKeywords \/ Return

SpecKeywords == Init /\ [][NextKeywords]_vars

\* ------------------------------------------------------- vocabulary of the claims
SixPhases == {"DISCOVERY", "DESIGN", "REQUIREMENTS", "INTEGRATION", "ROADMAP", "FINALIZATION"}

ClaimedPlaceholder == <<Lit("(no section content found)")>>

\* The style label contains "heading" in some letter case.
StyledAsHeading(para) == \E i \in 1..Len(para.style) : para.style[i].k = "word" /\ para.style[i].s = "heading"

\* The phases whose rule matches a text.
Matches(text) == {sec \in SixPhases : PatternSearch(sec, text)}

\* The phase of a non-empty set declared earliest in SECTIONS.
Earliest(M) ==
    LET positions == {i \in 1..Len(SECTIONS) : SECTIONS[i] \in M}
    IN  SECTIONS[CHOOSE i \in positions : \A j \in positions : i <= j]

\* The brevity / case condition of the pseudo-heading path.
ShortOrUpper(text) == IsUpper(text) \/ WordCount(text) <= 6

\* The paragraph triggers a phase switch, by either path.
Triggers(para) ==
    LET text == Strip(para.text) IN
    /\ text # <<>>
    /\ Matches(text) # {}
    /\ StyledAsHeading(para) \/ ShortOrUpper(text)

\* A step of the loop, the paragraph it consumes and that paragraph's trimmed text.
StepTaken == pc = "loop" /\ pc' = "loop" /\ idx' = idx + 1

StepPara == doc'[idx']

StepText == Strip(StepPara.text)

\* out with one fragment more at the end of one bucket.
WithFragment(sec, fragment) ==
    LET target == sec
        added == <<fragment>>
    IN  [s \in SixPhases |-> IF s = target THEN out[s] \o added ELSE out[s]]

\* The first n fragments of f, each two separated by a blank line.
RECURSIVE Glue(_, _)
Glue(f, n) == IF n = 0 THEN <<>> ELSE IF n = 1 THEN f[1] ELSE Glue(f, n - 1) \o <<Lit("\n\n")>> \o f[n]

ReturnedNormally == pc = "done" /\ path = "normal"

\* ---------------------------------------------------------------------- C1
\* C1: on every return path the returned mapping has exactly the six phases
\* as keys, and during the pass the bucket mapping has exactly those keys.
C1_KeySets ==
    /\ pc = "loop" => DOMAIN out = SixPhases
    /\ pc = "done" => DOMAIN result = SixPhases /\ path \in {"unavailable", "notfound", "openfail", "normal"}

C1_Witness ==
    /\ ReturnedNormally
    /\ Len(doc) = 2
    /\ out["DESIGN"] # <<>>
    /\ out["ROADMAP"] = <<>>
    /\ DOMAIN result = SixPhases

\* ---------------------------------------------------------------------- C2
\* C2 as stated: a phase whose bucket is empty at the end of the pass maps to
\* the string "(no section content found)".
C2_Original == ReturnedNormally => \A sec \in SixPhases : out[sec] = <<>> => result[sec] = ClaimedPlaceholder

\* C2 as amended: a phase whose bucket is empty at the end of the pass maps to
\* the fixed message "*(No section content found -- check headings/keywords in
\* the DOCX)*", never to the empty string; the empty input sequence yields
\* that message for all six phases.
C2_Placeholder ==
    ReturnedNormally =>
        /\ \A sec \in SixPhases : out[sec] = <<>> => result[sec] = NoContentMessage /\ result[sec] # <<>>
        /\ doc = <<>> => \A sec \in SixPhases : result[sec] = NoContentMessage

C2_Witness ==
    /\ ReturnedNormally
    /\ Len(doc) = 1
    /\ out["DISCOVERY"] # <<>>
    /\ result["FINALIZATION"] = NoContentMessage

\* ---------------------------------------------------------------------- C3
\* The document is a heading-styled paragraph that selects phase P, then body
\* paragraphs (non-empty, none triggering a switch), then a heading-styled
\* paragraph that selects another phase Q.
C3_Shape(P, Q) ==
    LET n == Len(doc) IN
    /\ n >= 2
    /\ P # Q
    /\ StyledAsHeading(doc[1]) /\ PatternSearch(P, Strip(doc[1].text)) /\ Earliest(Matches(Strip(doc[1].text))) = P
    /\ StyledAsHeading(doc[n]) /\ PatternSearch(Q, Strip(doc[n].text)) /\ Earliest(Matches(Strip(doc[n].text))) = Q
    /\ \A i \in 2..(n - 1) : Strip(doc[i].text) # <<>> /\ ~Triggers(doc[i])

SwitchPositions == {i \in 1..idx : Triggers(doc[i])}

FirstSwitch ==
    LET positions == SwitchPositions
    IN  IF positions = {} THEN idx + 1 ELSE CHOOSE i \in positions : \A j \in positions : i <= j

\* C4: every paragraph before the first paragraph that triggers a switch is
\* discarded: while no switch has happened the cursor is none and all buckets
\* are empty, and the result is the result of the document with those
\* paragraphs removed.
C4_DiscardedBeforeFirstSwitch ==
    /\ pc = "loop" /\ SwitchPositions = {} => current_section = None /\ \A sec \in SixPhases : out[sec] = <<>>
    /\ ReturnedNormally => result = ExtractSections(SubSeq(doc, FirstSwitch, idx))

C4_Witness ==
    /\ ReturnedNormally
    /\ Len(doc) = 3
    /\ FirstSwitch = 3
    /\ Strip(doc[1].text) # <<>>
    /\ StyledAsHeading(doc[2])
    /\ \E sec \in SixPhases : Len(out[sec]) = 1

\* ---------------------------------------------------------------------- C5
\* C5: a non-heading-styled, non-empty paragraph triggers a phase switch
\* (cursor set to a matching phase R, "### " + text appended to R's bucket)
\* if and only if its text matches some rule and is upper-case or has six or
\* fewer words; otherwise it is appended as plain text to the active phase,
\* or discarded if none is active.
C5_PseudoHeading ==
    [][ (StepTaken /\ StepText # <<>> /\ ~StyledAsHeading(StepPara)) =>
          IF Matches(StepText) # {} /\ (IsUpper(StepText) \/ WordCount(StepText) <= 6)
          THEN \E R \in Matches(StepText) :
                  /\ current_section' = R
                  /\ out' = WithFragment(R, <<Pn("###"), Sp>> \o StepText)
          ELSE /\ current_section' = current_section
               /\ out' = IF current_section # None THEN WithFragment(current_section, StepText) ELSE out ]_vars

C5_Witness ==
    /\ pc = "loop"
    /\ idx = 3
    /\ ~StyledAsHeading(doc[1]) /\ WordCount(Strip(doc[1].text)) = 7 /\ Matches(Strip(doc[1].text)) = {"ROADMAP"} /\ ~IsUpper(Strip(doc[1].text))
    /\ ~StyledAsHeading(doc[2]) /\ WordCount(Strip(doc[2].text)) = 6 /\ Matches(Strip(doc[2].text)) = {"ROADMAP"}
    /\ doc[3] = doc[1]
    /\ current_section = "ROADMAP"
    /\ out["ROADMAP"] = << <<Pn("###"), Sp>> \o Strip(doc[2].text), Strip(doc[3].text) >>

\* ---------------------------------------------------------------------- C6
\* C6: when the text of a switch-triggering paragraph matches two or more
\* phases, the phase selected is the one declared earliest, in both paths,
\* and only that phase's bucket receives the heading fragment.
C6_EarliestDeclaredWins ==
    [][ (StepTaken /\ Triggers(StepPara) /\ Cardinality(Matches(StepText)) >= 2) =>
          LET first == Earliest(Matches(StepText)) IN
          /\ current_section' = first
          /\ out' = WithFragment(first, <<Pn("###"), Sp>> \o StepText) ]_vars

C6_Witness ==
    /\ pc = "loop"
    /\ idx = 2
    /\ StyledAsHeading(doc[1]) /\ Matches(Strip(doc[1].text)) = {"DISCOVERY", "DESIGN"}
    /\ ~StyledAsHeading(doc[2]) /\ Matches(Strip(doc[2].text)) = {"DESIGN", "INTEGRATION"}
    /\ current_section = "DESIGN"
    /\ Len(out["DISCOVERY"]) = 1 /\ Len(out["DESIGN"]) = 1 /\ out["INTEGRATION"] = <<>>

\* ---------------------------------------------------------------------- C7
\* C7: a call on the document the previous call read returns what the
\* previous call returned, and a call's result is determined by its own
\* paragraph sequence, whatever the earlier call read.
C7_Idempotent ==
    ReturnedNormally =>
        /\ replay => result = prev
        /\ result = ExtractSections(doc)

C7_Witness ==
    /\ ReturnedNormally
    /\ replay
    /\ run = 2
    /\ Len(doc) = 2
    /\ Len(out["DESIGN"]) = 2
    /\ result = prev

\* ---------------------------------------------------------------------- C8
\* The paragraphs of a sequence whose trimmed text is not empty.
RECURSIVE NonBlank(_)
NonBlank(paras) ==
    IF paras = <<>> THEN <<>>
    ELSE IF Strip(Head(paras).text) = <<>> THEN NonBlank(Tail(paras))
    ELSE <<Head(paras)>> \o NonBlank(Tail(paras))

\* C8: a paragraph that is empty after trimming leaves the cursor and all
\* buckets unchanged, and the result is the result of the sequence with such
\* paragraphs removed.
C8_BlankParagraphsInert ==
    /\ [][ (StepTaken /\ StepText = <<>>) => current_section' = current_section /\ out' = out ]_vars
    /\ [](ReturnedNormally => result = ExtractSections(NonBlank(doc)))

C8_Witness ==
    /\ pc = "loop"
    /\ idx = 3
    /\ Triggers(doc[1])
    /\ doc[2].text # <<>> /\ Strip(doc[2].text) = <<>>
    /\ Strip(doc[3].text) # <<>> /\ ~Triggers(doc[3])
    /\ current_section # None
    /\ Len(out[current_section]) = 2

\* ---------------------------------------------------------------------- C9
\* C9: a paragraph whose style label contains "heading" in any letter case
\* and whose text matches a rule switches the cursor to the first matching
\* phase and appends "### " + text to its bucket, whatever the word count and
\* letter case of the text.
C9_HeadingPath ==
    [][ (StepTaken /\ StepText # <<>> /\ StyledAsHeading(StepPara) /\ Matches(StepText) # {}) =>
          LET first == Earliest(Matches(StepText)) IN
          /\ current_section' = first
          /\ out' = WithFragment(first, <<Pn("###"), Sp>> \o StepText) ]_vars

C9_Witness ==
    /\ pc = "loop"
    /\ idx = 2
    /\ doc[2].style = <<L("heading"), Sp, D("2")>>
    /\ WordCount(Strip(doc[2].text)) = 7 /\ ~IsUpper(Strip(doc[2].text))
    /\ current_section = "REQUIREMENTS"
    /\ out["REQUIREMENTS"] = << <<Pn("###"), Sp>> \o Strip(doc[2].text) >>
    /\ out["DISCOVERY"] # <<>>

\* --------------------------------------------------------------------- C10
\* C10: a heading-styled paragraph whose text matches no rule never changes
\* the cursor and never clears a bucket; it is appended without the marker to
\* the active phase, or discarded when no phase is active.
C10_UnmatchedHeadingInert ==
    [][ (StepTaken /\ StepText # <<>> /\ StyledAsHeading(StepPara) /\ Matches(StepText) = {}) =>
          /\ current_section' = current_section
          /\ out' = IF current_section # None THEN WithFragment(current_section, StepText) ELSE out ]_vars

C10_Witness ==
    /\ pc = "loop"
    /\ idx = 2
    /\ StyledAsHeading(doc[2]) /\ Matches(Strip(doc[2].text)) = {} /\ IsUpper(Strip(doc[2].text))
    /\ current_section = "DISCOVERY"
    /\ out["DISCOVERY"] = << <<Pn("###"), Sp, T("discovery")>>, Strip(doc[2].text) >>

\* --------------------------------------------------------------------- C11
\* The three returns that precede the loop: lines 150, 159 and 161.
FailedToRead == pc = "done" /\ path \in {"unavailable", "notfound", "openfail"}

\* C11 as stated: when the document cannot be read (parser unavailable,
\* document not found, document unreadable) every one of the six phases maps
\* to the placeholder that an empty bucket of a readable document gets.
C11_Original ==
    FailedToRead => \A s \in SixPhases : result[s] = ExtractSections(<<>>)[s]

\* C11 as the code has it: when the document cannot be read every one of the
\* six phases maps to one and the same message, which names the cause (parser
\* not available, DOCX not found at the path, failed to open with the error)
\* and is never the placeholder of an empty bucket.
C11_FailureMessage ==
    FailedToRead =>
        LET message == result["DISCOVERY"] IN
        /\ \A s \in SixPhases : result[s] = message
        /\ message # ExtractSections(<<>>)["DISCOVERY"]
        /\ path = "unavailable" => message = <<Lit("*(python-docx not available -- install with pip install python-docx)*")>>
        /\ path = "notfound" => \E p \in DocxPaths : message = <<Lit("*(DOCX not found at ")>> \o (IF p \in {PathNone, <<>>} THEN <<Lit("[uploaded bytes missing]")>> ELSE p) \o <<Lit(")*")>>
        /\ path = "openfail" => \E e \in OpenErrors : message = <<Lit("*(Failed to open DOCX: ")>> \o e \o <<Lit(")*")>>

C11_Witness ==
    /\ pc = "done"
    /\ path = "notfound"
    /\ DocxDocument = "Document"
    /\ \A s \in SixPhases : result[s] = <<Lit("*(DOCX not found at "), Lit("[uploaded bytes missing]"), Lit(")*")>>

\* --------------------------------------------------------------------- C12
\* The keywords of each phase, as the words (and blanks) they are made of.
Keywords(sec) ==
    CASE sec = "DISCOVERY" -> {<<"discovery">>}
      [] sec = "DESIGN" -> {<<"design">>}
      [] sec = "REQUIREMENTS" -> {<<"requirement">>, <<"requirement", "s">>}
      [] sec = "INTEGRATION" -> {<<"integration">>, <<"integration", "s">>}
      [] sec = "ROADMAP" -> {<<"roadmap">>}
      [] sec = "FINALIZATION" -> {<<"finalization">>, <<"finalisation">>, <<"final", " ", "readout">>, <<"approval">>}

\* The keyword stands in t at position i, in any letter case.
StandsAt(t, i, keyword) ==
    /\ i + Len(keyword) - 1 <= Len(t)
    /\ \A j \in 1..Len(keyword) :
          LET a == t[i + j - 1] IN
          IF keyword[j] = " " THEN a.k = "space" ELSE a.k = "word" /\ a.s = keyword[j]

\* The keyword occurs in t as a whole word: not preceded and not followed by
\* a letter or a digit.
OccursAsWholeWord(t, keyword) ==
    \E i \in 1..Len(t) :
        /\ StandsAt(t, i, keyword)
        /\ i = 1 \/ t[i - 1].k \notin {"word", "digit"}
        /\ i + Len(keyword) - 1 = Len(t) \/ t[i + Len(keyword)].k \notin {"word", "digit"}

HasWholeWordKeyword(sec, t) == \E keyword \in Keywords(sec) : OccursAsWholeWord(t, keyword)

\* C12 as stated: the rule of every phase, FINALIZATION with each of its
\* alternatives included, matches the text of a paragraph only when one of
\* the phase's keywords occurs in it as a whole word, letter case ignored.
C12_WholeWordOnly ==
    [][ StepTaken => \A sec \in SixPhases : PatternSearch(sec, StepText) => HasWholeWordKeyword(sec, StepText) ]_vars

\* The same for the five rules written \bkeyword\b, and the converse for all
\* six: a keyword that occurs as a whole word is matched.
C12_FiveRulesAndConverse ==
    [][ StepTaken =>
          /\ \A sec \in SixPhases \ {"FINALIZATION"} : PatternSearch(sec, StepText) => HasWholeWordKeyword(sec, StepText)
          /\ \A sec \in SixPhases : HasWholeWordKeyword(sec, StepText) => PatternSearch(sec, StepText) ]_vars

\* --------------------------------------------------------------------- C13
IsPrefix(f, g) == Len(f) <= Len(g) /\ SubSeq(g, 1, Len(f)) = f

\* C13: during a pass every bucket only grows at its end: at every step the
\* previous content of each bucket is a prefix of its current content, and a
\* paragraph that switches to a phase, visited before or not, puts its
\* heading fragment after everything the phase's bucket already holds.
C13_AppendOnly ==
    [][ pc = "loop" =>
          /\ \A s \in SixPhases : IsPrefix(out[s], out'[s])
          /\ (StepTaken /\ Triggers(StepPara)) =>
                LET sec == current_section'
                    text == StepText
                IN  out'[sec] = out[sec] \o << <<Pn("###"), Sp>> \o text >> ]_vars

\* DISCOVERY is entered, left for DESIGN and entered again.
C13_Witness ==
    /\ pc = "loop"
    /\ idx = 3
    /\ Triggers(doc[1]) /\ Triggers(doc[2]) /\ Triggers(doc[3])
    /\ current_section = "DISCOVERY"
    /\ Len(out["DISCOVERY"]) = 2
    /\ out["DISCOVERY"][1] = <<Pn("###"), Sp>> \o Strip(doc[1].text)
    /\ out["DISCOVERY"][2] = <<Pn("###"), Sp>> \o Strip(doc[3].text)
    /\ out["DESIGN"] = << <<Pn("###"), Sp>> \o Strip(doc[2].text) >>

\* --------------------------------------------------------------------- C14
\* What a pass run alone has in its cursor and buckets after n paragraphs.
Alone(paras, n) == LoopFrom(None, [s \in SixPhases |-> <<>>], SubSeq(paras, 1, n))

\* C14 as stated: of two invocations interleaved paragraph by paragraph each
\* has the cursor, the buckets and the result it would have when run alone,
\* and no invocation writes state that the other reads.  DocxDocument is read
\* by every invocation on entry (line 146).
C14_Original ==
    [][ /\ pc' = "loop" => [cur |-> current_section', out |-> out'] = Alone(doc', idx')
        /\ other'.pc = "loop" => [cur |-> other'.current_section, out |-> other'.out] = Alone(other'.doc, other'.idx)
        /\ DocxDocument' = DocxDocument ]_vars

\* C14 as the code has it: of two invocations interleaved paragraph by
\* paragraph, each has at every point the cursor and the buckets it would
\* have when run alone on its own document, and each pass that reaches the
\* loop returns the result of running alone.  The module global DocxDocument
\* is shared: once either invocation has got past the import it holds the
\* parser class, for both.
C14_Isolation ==
    /\ pc = "loop" => [cur |-> current_section, out |-> out] = Alone(doc, idx)
    /\ other.pc = "loop" => [cur |-> other.current_section, out |-> other.out] = Alone(other.doc, other.idx)
    /\ (pc = "done" /\ path = "normal") => result = ExtractSections(doc)
    /\ (other.pc = "done" /\ other.path = "normal") => other.result = ExtractSections(other.doc)
    /\ (pc # "idle" /\ path # "unavailable") \/ (other.pc # "idle" /\ other.path # "unavailable") => DocxDocument = "Document"

\* Both invocations are inside their loops, on different documents and with
\* different cursors.
C14_Witness ==
    /\ pc = "loop" /\ idx = 1
    /\ other.pc = "loop" /\ other.idx = 2
    /\ current_section = "DISCOVERY"
    /\ other.current_section = "DESIGN"
    /\ Len(other.out["DESIGN"]) = 2
    /\ out["DESIGN"] = <<>>
    /\ DocxDocument = "Document"

\* --------------------------------------------------------------------- C15
\* C15: the cursor is None when a pass starts, first call or later call; a
\* paragraph changes it only by triggering a switch, and then to the phase
\* that paragraph matches; once it names a phase it names a phase until the
\* pass has returned.
C15_CursorMachine ==
    [][ /\ (pc' = "loop" /\ idx' = 0) => current_section' = None
        /\ StepTaken =>
              /\ current_section' # current_section =>
                    LET text == StepText IN Triggers(StepPara) /\ current_section' = Earliest(Matches(text))
              /\ current_section # None => current_section' # None
        /\ (pc = "loop" /\ ~StepTaken) => current_section' = current_section ]_vars

\* A second pass that was switched by its first paragraph and kept the
\* cursor over a paragraph that triggers nothing.
C15_Witness ==
    /\ run = 2
    /\ pc = "loop"
    /\ idx = 2
    /\ Triggers(doc[1])
    /\ ~Triggers(doc[2])
    /\ current_section = Earliest(Matches(Strip(doc[1].text)))

\* --------------------------------------------------------------------- C16
\* The buckets that a step changed.
ChangedBuckets == {s \in SixPhases : out'[s] # out[s]}

\* C16: one paragraph changes at most one bucket and adds at most one
\* fragment to it; a paragraph that triggers a switch, by the heading path
\* or by the pseudo-heading path, adds its heading fragment and nothing
\* else, so its text is not appended a second time as a heading or as body.
C16_OneFragmentPerParagraph ==
    [][ StepTaken =>
          LET changed == ChangedBuckets
              text == StepText
          IN  /\ Cardinality(changed) <= 1
              /\ \A s \in changed : Len(out'[s]) = Len(out[s]) + 1 /\ SubSeq(out'[s], 1, Len(out[s])) = out[s]
              /\ Triggers(StepPara) =>
                    /\ changed = {current_section'}
                    /\ out'[current_section'][Len(out[current_section']) + 1] = <<Pn("###"), Sp>> \o text ]_vars

\* A short heading-styled paragraph, which passes both tests, and then a
\* short plain paragraph that switches by the pseudo-heading path.
C16_Witness ==
    /\ pc = "loop"
    /\ idx = 2
    /\ StyledAsHeading(doc[1]) /\ ShortOrUpper(Strip(doc[1].text)) /\ Matches(Strip(doc[1].text)) = {"DISCOVERY"}
    /\ ~StyledAsHeading(doc[2]) /\ Triggers(doc[2])
    /\ current_section = "DESIGN"
    /\ Len(out["DISCOVERY"]) = 1
    /\ Len(out["DESIGN"]) = 1

\* --------------------------------------------------------------------- C17
\* The last run drew the dashboard in Auto mode from the configured path.
AutoFromPath == rendered.view = "dashboard" /\ rendered.mode = "Auto" /\ ~rendered.uploaded_pdf

\* C17 as stated: in Auto mode the chain is images, then data URI, then file
\* URL: when no images came and the data-URI embedding failed, the file-URL
\* embedding is attempted; so a chain that ended with the data-URI step ended
\* there because that step put the PDF on the page.
C17_FileUrlFallback ==
    (AutoFromPath /\ rendered.steps = <<"images", "data_uri">>) => rendered.content = "data_uri"

\* --------------------------------------------------------------------- C18
\* The selector a run starts from: line 367 creates the key as None.
SelectorBefore == IF session_state.current_section = Absent THEN None ELSE session_state.current_section

\* What the claim says of the selector itself: its values, the effect of the
\* buttons and of a run without a click, and when the dashboard is drawn.
C18_SelectorSteps ==
    LET click == rendered'.click
        after == session_state'.current_section
    IN  /\ after \in {None} \cup SixPhases
        /\ click \in SixPhases => after = click
        /\ click = "show_pdf" => after = None
        /\ click = "none" => after = SelectorBefore
        /\ rendered'.view = "dashboard" <=> after = None
        /\ after # None => rendered'.view = "section" /\ rendered'.heading = after

\* C18 as stated: over all runs and clicks of a session the selector is None
\* or a phase, changes as the buttons say, and the dashboard is drawn exactly
\* when it is None; otherwise the content of the selected phase is drawn
\* (or an error message in its place).
C18_Original ==
    [][ rendered'.run = "page" =>
          /\ C18_SelectorSteps
          /\ session_state'.current_section # None => rendered'.content \in {"section_text", "error"} ]_vars

\* C18 as the code has it: as stated for the selector, from the first run that
\* gets past the bootstrap (the bootstrap run leaves the key absent and draws
\* nothing); when a phase is selected its heading is drawn, and below it the
\* phase's extracted text in "Extracted text" mode, but the whole guidebook,
\* as HTML or as page images, or an error, in the two other guide modes.
C18_Selector ==
    [][ /\ rendered'.run = "page" =>
             /\ C18_SelectorSteps
             /\ session_state'.current_section # None =>
                   /\ rendered'.guide_mode = "Extracted text" => rendered'.content = "section_text"
                   /\ rendered'.guide_mode = "HTML" => rendered'.content \in {"guidebook_html", "error"}
                   /\ rendered'.guide_mode = "Page images" => rendered'.content \in {"guidebook_pages", "error"}
        /\ rendered'.run = "bootstrap" =>
             /\ session_state.current_section = Absent
             /\ session_state'.current_section = Absent
             /\ rendered'.view = "none" ]_vars

\* A run that no button caused, with DESIGN selected before and after, in
\* "Page images" mode.
C18_Witness ==
    /\ rendered.run = "page"
    /\ rendered.click = "none"
    /\ session_state.current_section = "DESIGN"
    /\ rendered.view = "section"
    /\ rendered.heading = "DESIGN"
    /\ rendered.guide_mode = "Page images"
    /\ rendered.content = "guidebook_pages"

\* --------------------------------------------------------------------- C19
Bootstrapped(state) == state.deps_bootstrapped = "True"

\* C19: ensure_dependency is called, for the three packages, only in a run
\* that finds the flag not set; that run sets the flag and draws nothing; the
\* flag once set stays set; every run that finds it set calls none of the
\* three and draws the dashboard or a section.
C19_BootstrapOnce ==
    [][ /\ ~Bootstrapped(session_state) =>
             /\ rendered'.ensured = {"python-docx", "pymupdf", "mammoth"}
             /\ Bootstrapped(session_state')
             /\ rendered'.run = "bootstrap"
             /\ rendered'.view = "none" /\ rendered'.content = "none"
        /\ Bootstrapped(session_state) =>
             /\ Bootstrapped(session_state')
             /\ rendered'.ensured = {}
             /\ rendered'.run = "page"
             /\ rendered'.view \in {"dashboard", "section"} ]_vars

C19_Witness ==
    /\ Bootstrapped(session_state)
    /\ rendered.run = "page"
    /\ rendered.ensured = {}
    /\ rendered.view = "section"
    /\ rendered.click = "none"

\* --------------------------------------------------------------------- C20
\* C20: in a run with an uploaded DOCX nothing of the guidebook is opened from
\* the configured path, whichever view and guide mode, and likewise for an
\* uploaded PDF and the dashboard; in a run without the upload nothing is
\* opened from bytes.
C20_UploadWins ==
    rendered.run = "page" =>
        /\ rendered.uploaded_docx => rendered.docx_opened \subseteq {"bytes"}
        /\ rendered.uploaded_pdf => rendered.pdf_opened \subseteq {"bytes"}
        /\ ~rendered.uploaded_docx => rendered.docx_opened \subseteq {"path"}
        /\ ~rendered.uploaded_pdf => rendered.pdf_opened \subseteq {"path"}
        /\ (rendered.uploaded_docx /\ rendered.content \in {"guidebook_html", "guidebook_pages"}) => rendered.docx_opened = {"bytes"}
        /\ (rendered.uploaded_pdf /\ rendered.content = "images") => rendered.pdf_opened = {"bytes"}

\* A DOCX is uploaded while the configured DOCX path exists, and the pages of
\* the guidebook are drawn.
C20_Witness ==
    /\ rendered.run = "page"
    /\ rendered.uploaded_docx
    /\ "docx_path" \in rendered.found
    /\ rendered.view = "section"
    /\ rendered.guide_mode = "Page images"
    /\ rendered.content = "guidebook_pages"
    /\ rendered.docx_opened = {"bytes"}

\* --------------------------------------------------------------------- C21
\* The revision's call ended without reading the document.
FailedIn(rev) == revs.frames[rev].path \in {"unavailable", "notfound", "openfail", "raised"}

\* The revision's call returned a mapping of the six phases to one message.
ReportedAsValue(rev) ==
    /\ DOMAIN revs.frames[rev].result = SixPhases
    /\ \A s, u \in SixPhases : revs.frames[rev].result[s] = revs.frames[rev].result[u]
    /\ \A s \in SixPhases : revs.frames[rev].result[s] # <<>>

\* C21: in every revision a failure to open or parse the document is returned
\* as a mapping of all six phases to one failure message and never leaves the
\* function as an exception.
C21_FailureAsValue ==
    \A rev \in RevisionSet :
        /\ revs.frames[rev].path # "raised"
        /\ FailedIn(rev) => ReportedAsValue(rev)

\* --------------------------------------------------------------------- C22
\* All four revisions read the document.
AllInLoop == \A rev \in RevisionSet : revs.frames[rev].path = "normal"

\* C22: on every paragraph sequence the four revisions hold the same cursor and
\* the same buckets after every paragraph and return the same result for
\* every phase.
C22_Equivalent ==
    AllInLoop =>
        \A r1, r2 \in RevisionSet :
            /\ revs.frames[r1].current_section = revs.frames[r2].current_section
            /\ revs.frames[r1].out = revs.frames[r2].out
            /\ revs.frames[r1].result = revs.frames[r2].result

\* --------------------------------------------------------------------- C23
StartsWithMarker(t) == Len(t) >= 2 /\ t[1] = Pn("###") /\ t[2] = Sp

\* The state part of C23.
C23_HeadedBuckets ==
    /\ pc = "loop" =>
          /\ \A s \in SixPhases : out[s] # <<>> => StartsWithMarker(out[s][1])
          /\ current_section # None => out[current_section] # <<>>
    /\ ReturnedNormally =>
          \A s \in SixPhases :
              result[s] # <<Lit("*(No section content found -- check headings/keywords in the DOCX)*")>> => StartsWithMarker(result[s])

\* C23: at every step of a pass every non-empty bucket starts with a fragment
\* that carries the "### " marker and the bucket of the cursor's phase is not
\* empty; a bucket becomes non-empty only in a step that makes its phase the
\* cursor; every result value other than the placeholder begins with "### ".
C23_HeadingFirst ==
    [][ /\ C23_HeadedBuckets'
        /\ StepTaken => \A s \in SixPhases : (out[s] = <<>> /\ out'[s] # <<>>) => current_section' = s ]_vars

\* A document with a line before the first heading and one after it.
C23_Witness ==
    /\ ReturnedNormally
    /\ Len(doc) = 3
    /\ ~Triggers(doc[1]) /\ Strip(doc[1].text) # <<>>
    /\ Triggers(doc[2])
    /\ ~Triggers(doc[3]) /\ Strip(doc[3].text) # <<>>
    /\ \E s \in SixPhases : Len(out[s]) = 2 /\ StartsWithMarker(result[s])

\* --------------------------------------------------------------------- C24
\* All fragments of all buckets, in the order of SECTIONS.
AllFragments == out["DISCOVERY"] \o out["DESIGN"] \o out["REQUIREMENTS"] \o out["INTEGRATION"] \o out["ROADMAP"] \o out["FINALIZATION"]

\* C24: during and at the end of a pass the buckets together hold as many
\* fragments as there are non-empty paragraphs from the first paragraph that
\* triggered a switch onward, and the text of each of those paragraphs stands
\* in the buckets, with or without the marker, once for each paragraph that
\* has this text.
C24_NothingLostOrDuplicated ==
    (pc = "loop" \/ ReturnedNormally) =>
        LET kept == NonBlank(SubSeq(doc, FirstSwitch, idx))
            fragments == AllFragments
        IN  /\ Len(fragments) = Len(kept)
            /\ \A i \in 1..Len(kept) :
                  LET text == Strip(kept[i].text) IN
                  Cardinality({j \in 1..Len(fragments) : fragments[j] = text \/ fragments[j] = <<Pn("###"), Sp>> \o text})
                    = Cardinality({j \in 1..Len(kept) : Strip(kept[j].text) = text})

\* A heading followed by the same line twice.
C24_Witness ==
    /\ ReturnedNormally
    /\ Len(doc) = 3
    /\ Triggers(doc[1])
    /\ ~Triggers(doc[2]) /\ Strip(doc[2].text) # <<>>
    /\ doc[3] = doc[2]
    /\ Len(out[current_section]) = 3

\* --------------------------------------------------------------------- C25
\* docx_to_pdf_bytes has returned.
Converted == fs.pc = "done"

\* C25: on every return path the temporary input file and the temporary output
\* directory no longer exist when docx_to_pdf_bytes returns, and the document
\* at a caller-supplied path is never deleted.
C25_ReleasesWhatItCreates ==
    /\ Converted => fs.temp_in # "exists" /\ fs.out_dir # "exists"
    /\ fs.caller_file # "deleted"

\* What holds of the code: the caller's document is never deleted, and the
\* output directory is left behind on every return that follows its creation.
C25_OutDirLeftBehind ==
    /\ fs.caller_file # "deleted"
    /\ Converted /\ fs.via # "no input" => fs.out_dir = "exists"

====
